---- MODULE Spec2Model ----
(***************************************************************************)
(* Model of main.py: BitmapAdv (geometric operations on a glyph bitmap and *)
(* its packing into C array bytes) and GlyphProcessor (the transformation  *)
(* configuration applied to every glyph of a font).                        *)
(*                                                                         *)
(* A bitmap's bindata is a Python list of strings of '0'/'1'.  Here it is  *)
(* a sequence of rows, each row a sequence of 0/1.  A hex string is a      *)
(* sequence of hex digits, each digit its value 0..15.                     *)
(***************************************************************************)
EXTENDS Integers, Sequences, FiniteSets, TLC

\* ------------------------------------------------------------------ bounds

\* SpecBitmap: sides of the bitmaps a BitmapAdv starts from and may grow to
MaxSide == 2
\* SpecPack: how many pixels of a bitmap handed to getCArr are set at most
MaxLit == 2
\* Spec: number of configuration calls made before fontToCArray
MaxCalls == 4

\* SpecPack: widths and heights of the bitmaps handed to getCArr (the heights
\* at which the number of hex digits or of bytes per column changes)
PackWidths == {1, 2}
PackHeights == {1, 4, 5, 8, 9, 12, 13, 16, 17}
\* amounts passed to doPadding in SpecBitmap
PadAmounts == {-2, -1, 0, 1}
\* amounts passed to setPaddingTop/Bottom/Left/Right in Spec
PadValues == {-1, 4}
\* sides of a font's glyph bitmaps in Spec
GlyphSides == {1, 2}

\* --------------------------------------------------------- Python helpers

Bit == {0, 1}

\* s[::-1] and list.reverse()
Reverse(s) == [i \in 1..Len(s) |-> s[Len(s) + 1 - i]]

\* n * [x]  and  'c' * n
Repeat(x, n) == [i \in 1..n |-> x]

\* s[k:] for k >= 0
DropFirst(s, k) == IF k >= Len(s) THEN <<>> ELSE SubSeq(s, k + 1, Len(s))

\* s[:-k] for k > 0
DropLast(s, k) == IF k >= Len(s) THEN <<>> ELSE SubSeq(s, 1, Len(s) - k)

\* math.ceil(a / b) for a >= 0, b > 0
CeilDiv(a, b) == (a + b - 1) \div b

\* ----------------------------------------------------- Bitmap (bdfparser)

\* Bitmap.height(): len(self.bindata)
height(bindata) == Len(bindata)

\* Bitmap.width(): len(self.bindata[0]); IndexError on an empty list
widthRaises(bindata) == bindata = <<>>

width(bindata) == Len(bindata[1])

\* int(l, 2)
BinValue(row) ==
  LET RECURSIVE val(_)
      val(n) == IF n = 0 THEN 0 ELSE 2 * val(n - 1) + row[n]
  IN val(Len(row))

\* hex(v)[2:]: the hex digits of v, most significant first, "0" for 0
RECURSIVE HexDigits(_)
HexDigits(v) == IF v < 16 THEN <<v>> ELSE Append(HexDigits(v \div 16), v % 16)

\* s.rjust(n, '0')
RJust(s, n) == IF Len(s) >= n THEN s ELSE Repeat(0, n - Len(s)) \o s

\* Bitmap.todata(4): one hex string per row, ceil(width / 4) digits
todata4(bindata) ==
  [r \in 1..Len(bindata) |->
     RJust(HexDigits(BinValue(bindata[r])), CeilDiv(width(bindata), 4))]

\* zip(*rows): as many tuples as the shortest row is long, none for no rows
Zip(rows) ==
  IF rows = <<>> THEN <<>>
  ELSE [c \in 1..Len(rows[1]) |-> [r \in 1..Len(rows) |-> rows[r][c]]]

\* --------------------------------------------------------------- BitmapAdv

transpose(bindata) == Zip(bindata)

flipHorizontal(bindata) == [r \in 1..Len(bindata) |-> Reverse(bindata[r])]

flipVertical(bindata) == Reverse(bindata)

rotateCW(bindata) == flipHorizontal(transpose(bindata))

rotateCCW(bindata) == flipVertical(transpose(bindata))

\* lines 60-65: one hex string cut into groups of nibblesAmt digits from the
\* left (the last group is shorter when the digit count is odd), then reversed
nibblesAmt == 2

SplitRow(row) ==
  Reverse([j \in 1..CeilDiv(Len(row), nibblesAmt) |->
             SubSeq(row, nibblesAmt * (j - 1) + 1,
                    IF nibblesAmt * j <= Len(row) THEN nibblesAmt * j ELSE Len(row))])

\* lines 51-65: byteArr before the reordering, one row per row of the
\* clockwise-rotated clone
byteArrOf(bindata) ==
  LET data == todata4(rotateCW(bindata))
  IN  [r \in 1..Len(data) |-> SplitRow(data[r])]

\* line 72: [elem for row in byteArr for elem in row]
RECURSIVE Flatten(_)
Flatten(rows) == IF rows = <<>> THEN <<>> ELSE Head(rows) \o Flatten(Tail(rows))

\* the reordering with its test inverted
reorder_Inverted(byteArr, orderIsRowMajor) ==
  IF ~orderIsRowMajor THEN Zip(byteArr) ELSE byteArr

\* lines 68-69
reorder(byteArr, orderIsRowMajor) ==
  IF orderIsRowMajor THEN Zip(byteArr) ELSE byteArr

getCArr(bindata, orderIsRowMajor) ==
  Flatten(reorder(byteArrOf(bindata), orderIsRowMajor))

\* doPadding, one edge at a time.  Each gives self.bindata after its step; a
\* step that raises (width() of an empty list) leaves it as it was.
padTopRaises(bindata, top) == top > 0 /\ widthRaises(bindata)

padTop(bindata, top) ==
  IF top > 0 THEN
    IF widthRaises(bindata) THEN bindata
    ELSE Repeat(Repeat(0, width(bindata)), top) \o bindata
  ELSE IF top < 0 THEN DropFirst(bindata, -top)
  ELSE bindata

padBottomRaises(bindata, bottom) == bottom > 0 /\ widthRaises(bindata)

padBottom(bindata, bottom) ==
  IF bottom > 0 THEN
    IF widthRaises(bindata) THEN bindata
    ELSE bindata \o Repeat(Repeat(0, width(bindata)), bottom)
  ELSE IF bottom < 0 THEN DropLast(bindata, -bottom)
  ELSE bindata

padLeft(bindata, left) ==
  IF left > 0 THEN [r \in 1..Len(bindata) |-> Repeat(0, left) \o bindata[r]]
  ELSE IF left < 0 THEN [r \in 1..Len(bindata) |-> DropFirst(bindata[r], -left)]
  ELSE bindata

padRight(bindata, right) ==
  IF right > 0 THEN [r \in 1..Len(bindata) |-> bindata[r] \o Repeat(0, right)]
  ELSE IF right < 0 THEN [r \in 1..Len(bindata) |-> DropLast(bindata[r], -right)]
  ELSE bindata

doPaddingRaises(bindata, top, bottom, left, right) ==
  \/ padTopRaises(bindata, top)
  \/ padBottomRaises(padTop(bindata, top), bottom)

\* self.bindata when doPadding returns or raises
doPadding(bindata, top, bottom, left, right) ==
  IF padTopRaises(bindata, top) THEN bindata
  ELSE IF padBottomRaises(padTop(bindata, top), bottom) THEN padTop(bindata, top)
  ELSE padRight(padLeft(padBottom(padTop(bindata, top), bottom), left), right)

\* ------------------------------------------------------------------- state

VARIABLES
  \* a Bitmap b and the BitmapAdv made by BitmapAdv.fromParent(b)
  parentData,          \* b.bindata
  bindata,             \* self.bindata of the BitmapAdv
  shared,              \* TRUE while both bindata name the same list object
  exc,                 \* the exception the last call raised, "none" if none
  carr,                \* what the last getCArr call was given and returned
  \* a GlyphProcessor
  padding, mirrorHoriz, mirrorVert, rotationCount, dataOrderIsRowMajor,
  hist,                \* the configuration calls made so far
  \* fontToCArray
  pc, glyph, baseBmap, glyphSize, entry

bitmapVars == <<parentData, bindata, shared, carr>>
configVars == <<padding, mirrorHoriz, mirrorVert, rotationCount, dataOrderIsRowMajor>>
runVars == <<pc, glyph, baseBmap, glyphSize, entry>>
vars == <<bitmapVars, exc, configVars, hist, runVars>>

\* all bitmaps of 1..n rows and 1..n columns
Bitmaps(sides) ==
  UNION {[1..h -> [1..w -> Bit]] : h \in sides, w \in sides}

\* the h x w bitmap whose set pixels are those numbered in lit (row-wise from 1)
Sparse(h, w, lit) ==
  [r \in 1..h |-> [c \in 1..w |-> IF (r - 1) * w + c \in lit THEN 1 ELSE 0]]

NoCArr == [called |-> FALSE, orderIsRowMajor |-> TRUE, bytes |-> <<>>]

\* GlyphProcessor.__init__, lines 105-118
InitConfig ==
  /\ padding = [Top |-> 0, Bottom |-> 0, Left |-> 0, Right |-> 0]
  /\ dataOrderIsRowMajor = TRUE
  /\ mirrorHoriz = FALSE
  /\ mirrorVert = FALSE
  /\ rotationCount = 0
  /\ hist = [calls |-> 0, cw |-> 0, ccw |-> 0, horiz |-> FALSE, vert |-> FALSE,
             pad |-> [Top |-> 0, Bottom |-> 0, Left |-> 0, Right |-> 0]]

InitRun ==
  /\ pc = "configure"
  /\ glyph = <<>>
  /\ baseBmap = <<>>
  /\ glyphSize = 0
  /\ entry = <<>>

InitNoBitmap ==
  /\ parentData = <<>>
  /\ bindata = <<>>
  /\ shared = FALSE
  /\ carr = NoCArr

\* ------------------------------------------------- BitmapAdv, as an object

\* BitmapAdv.fromParent(b): cls(parent.bindata) keeps the parent's list
fromParent(b) ==
  /\ parentData = b
  /\ bindata = b
  /\ shared = TRUE

\* an assignment self.bindata = <new list>
Assign(new) ==
  /\ bindata' = new
  /\ shared' = FALSE
  /\ parentData' = parentData

\* a change of the list self.bindata names, seen through every name of it
InPlace(new) ==
  /\ bindata' = new
  /\ shared' = shared
  /\ parentData' = IF shared THEN new ELSE parentData

BitmapAdv_transpose ==
  /\ Assign(transpose(bindata))
  /\ exc' = "none"
  /\ UNCHANGED <<carr, configVars, hist, runVars>>

BitmapAdv_flipHorizontal ==
  /\ Assign(flipHorizontal(bindata))
  /\ exc' = "none"
  /\ UNCHANGED <<carr, configVars, hist, runVars>>

BitmapAdv_flipVertical ==
  /\ InPlace(flipVertical(bindata))
  /\ exc' = "none"
  /\ UNCHANGED <<carr, configVars, hist, runVars>>

BitmapAdv_rotateCW ==
  /\ Assign(rotateCW(bindata))
  /\ exc' = "none"
  /\ UNCHANGED <<carr, configVars, hist, runVars>>

\* transpose() assigns a new list, which flipVertical() then reverses
BitmapAdv_rotateCCW ==
  /\ Assign(rotateCCW(bindata))
  /\ exc' = "none"
  /\ UNCHANGED <<carr, configVars, hist, runVars>>

\* whether doPadding got as far as an assignment to self.bindata
doPaddingAssigns(b, top, bottom, left, right) ==
  IF padTopRaises(b, top) THEN FALSE
  ELSE IF padBottomRaises(padTop(b, top), bottom) THEN top # 0
  ELSE top # 0 \/ bottom # 0 \/ left # 0 \/ right # 0

Fits(b) ==
  /\ height(b) <= MaxSide
  /\ \A r \in 1..Len(b) : Len(b[r]) <= MaxSide

BitmapAdv_doPadding(top, bottom, left, right) ==
  /\ Fits(doPadding(bindata, top, bottom, left, right))
  /\ IF doPaddingAssigns(bindata, top, bottom, left, right)
       THEN Assign(doPadding(bindata, top, bottom, left, right))
       ELSE UNCHANGED <<bindata, shared, parentData>>
  /\ exc' = IF doPaddingRaises(bindata, top, bottom, left, right)
              THEN "IndexError" ELSE "none"
  /\ UNCHANGED <<carr, configVars, hist, runVars>>

\* getCArr works on self.clone(), a new list, and assigns nothing to self
BitmapAdv_getCArr(orderIsRowMajor) ==
  /\ carr' = [called |-> TRUE, orderIsRowMajor |-> orderIsRowMajor,
              bytes |-> getCArr(bindata, orderIsRowMajor)]
  /\ exc' = "none"
  /\ UNCHANGED <<bindata, shared, parentData, configVars, hist, runVars>>

InitBitmap ==
  /\ \E b \in Bitmaps(1..MaxSide) : fromParent(b)
  /\ carr = NoCArr
  /\ exc = "none"
  /\ InitConfig
  /\ InitRun

NextBitmap ==
  \/ BitmapAdv_transpose
  \/ BitmapAdv_flipHorizontal
  \/ BitmapAdv_flipVertical
  \/ BitmapAdv_rotateCW
  \/ BitmapAdv_rotateCCW
  \/ \E top, bottom, left, right \in PadAmounts :
       BitmapAdv_doPadding(top, bottom, left, right)

SpecBitmap == InitBitmap /\ [][NextBitmap]_vars

InitPack ==
  /\ \E h \in PackHeights, w \in PackWidths :
       \E lit \in [1..MaxLit -> 0..(h * w)] :
         fromParent(Sparse(h, w, {lit[i] : i \in 1..MaxLit}))
  /\ carr = NoCArr
  /\ exc = "none"
  /\ InitConfig
  /\ InitRun

NextPack == \E orderIsRowMajor \in BOOLEAN : BitmapAdv_getCArr(orderIsRowMajor)

SpecPack == InitPack /\ [][NextPack]_vars

\* ---------------------------------------------------------- GlyphProcessor

\* glyphToBitmap, lines 191-204: the bindata of the Bitmap returned (of the
\* padded bitmap when doPadding raises).  The bitmap drawn from the glyph is
\* a new object at every call.
Rotated(b, n) ==
  LET RECURSIVE rot(_)
      rot(k) == IF k = 0 THEN b ELSE rotateCW(rot(k - 1))
  IN rot(n)

Mirrored(b, horiz, vert) ==
  LET m == IF horiz THEN flipHorizontal(b) ELSE b
  IN  IF vert THEN flipVertical(m) ELSE m

glyphToBitmapRaises(g, pad) ==
  doPaddingRaises(g, pad.Top, pad.Bottom, pad.Left, pad.Right)

\* the transformation with the rotation made before the mirroring
Transformed_RotateFirst(g, pad, horiz, vert, count) ==
  Mirrored(Rotated(doPadding(g, pad.Top, pad.Bottom, pad.Left, pad.Right),
                   count % 4),
           horiz, vert)

Transformed(g, pad, horiz, vert, count) ==
  Rotated(Mirrored(doPadding(g, pad.Top, pad.Bottom, pad.Left, pad.Right),
                   horiz, vert),
          count % 4)

glyphToBitmap(g) ==
  Transformed(g, padding, mirrorHoriz, mirrorVert, rotationCount)

Configuring == pc = "configure" /\ hist.calls < MaxCalls

Called(h) ==
  /\ hist' = [h EXCEPT !.calls = @ + 1]
  /\ UNCHANGED <<bitmapVars, exc, runVars>>

setPaddingTop(pad) ==
  /\ Configuring
  /\ padding' = [padding EXCEPT !.Top = pad]
  /\ UNCHANGED <<mirrorHoriz, mirrorVert, rotationCount, dataOrderIsRowMajor>>
  /\ Called([hist EXCEPT !.pad.Top = pad])

setPaddingBottom(pad) ==
  /\ Configuring
  /\ padding' = [padding EXCEPT !.Bottom = pad]
  /\ UNCHANGED <<mirrorHoriz, mirrorVert, rotationCount, dataOrderIsRowMajor>>
  /\ Called([hist EXCEPT !.pad.Bottom = pad])

setPaddingLeft(pad) ==
  /\ Configuring
  /\ padding' = [padding EXCEPT !.Left = pad]
  /\ UNCHANGED <<mirrorHoriz, mirrorVert, rotationCount, dataOrderIsRowMajor>>
  /\ Called([hist EXCEPT !.pad.Left = pad])

setPaddingRight(pad) ==
  /\ Configuring
  /\ padding' = [padding EXCEPT !.Right = pad]
  /\ UNCHANGED <<mirrorHoriz, mirrorVert, rotationCount, dataOrderIsRowMajor>>
  /\ Called([hist EXCEPT !.pad.Right = pad])

setDataOrderRowMajor ==
  /\ Configuring
  /\ dataOrderIsRowMajor' = TRUE
  /\ UNCHANGED <<padding, mirrorHoriz, mirrorVert, rotationCount>>
  /\ Called(hist)

setDataOrderColumnMajor ==
  /\ Configuring
  /\ dataOrderIsRowMajor' = FALSE
  /\ UNCHANGED <<padding, mirrorHoriz, mirrorVert, rotationCount>>
  /\ Called(hist)

doHorizontalMirror ==
  /\ Configuring
  /\ mirrorHoriz' = TRUE
  /\ UNCHANGED <<padding, mirrorVert, rotationCount, dataOrderIsRowMajor>>
  /\ Called([hist EXCEPT !.horiz = TRUE])

doVerticalMirror ==
  /\ Configuring
  /\ mirrorVert' = TRUE
  /\ UNCHANGED <<padding, mirrorHoriz, rotationCount, dataOrderIsRowMajor>>
  /\ Called([hist EXCEPT !.vert = TRUE])

GlyphProcessor_rotateCW ==
  /\ Configuring
  /\ rotationCount' = rotationCount + 1
  /\ UNCHANGED <<padding, mirrorHoriz, mirrorVert, dataOrderIsRowMajor>>
  /\ Called([hist EXCEPT !.cw = @ + 1])

\* rotateCCW counting up as rotateCW does
GlyphProcessor_rotateCCW_CountsUp ==
  /\ Configuring
  /\ rotationCount' = rotationCount + 1
  /\ UNCHANGED <<padding, mirrorHoriz, mirrorVert, dataOrderIsRowMajor>>
  /\ Called([hist EXCEPT !.ccw = @ + 1])

GlyphProcessor_rotateCCW ==
  /\ Configuring
  /\ rotationCount' = rotationCount - 1
  /\ UNCHANGED <<padding, mirrorHoriz, mirrorVert, dataOrderIsRowMajor>>
  /\ Called([hist EXCEPT !.ccw = @ + 1])

\* the byte height rounded down
byteHeight_Floor(h) == h \div 8

\* line 238: math.ceil(float(height) / 8.0)
byteHeight(h) == CeilDiv(h, 8)

\* getArrStructTypedef, lines 237-244, called by fontToCArray (line 277) on
\* the font's first glyph: GLYPH_SIZE, or the IndexError of doPadding or of
\* width() on a bitmap without rows
getArrStructTypedef(baseGlyph) ==
  LET bmap == glyphToBitmap(baseGlyph)
  IN  /\ pc = "configure"
      /\ glyph' = baseGlyph
      /\ IF glyphToBitmapRaises(baseGlyph, padding)
           THEN /\ exc' = "IndexError in doPadding"
                /\ pc' = "raised"
                /\ UNCHANGED <<baseBmap, glyphSize>>
           ELSE /\ baseBmap' = bmap
                /\ IF widthRaises(bmap)
                     THEN /\ exc' = "IndexError in width"
                          /\ pc' = "raised"
                          /\ UNCHANGED glyphSize
                     ELSE /\ glyphSize' = width(bmap) * byteHeight(height(bmap))
                          /\ pc' = "header"
                          /\ UNCHANGED exc
      /\ UNCHANGED <<bitmapVars, configVars, hist, entry>>

\* glyphToCEntry, lines 211-215, called by fontToCArray (line 284) on the
\* same glyph: the list of bytes joined into the entry
glyphToCEntry ==
  /\ pc = "header"
  /\ entry' = getCArr(glyphToBitmap(glyph), dataOrderIsRowMajor)
  /\ pc' = "entry"
  /\ UNCHANGED <<bitmapVars, exc, configVars, hist, glyph, baseBmap, glyphSize>>

Init ==
  /\ InitNoBitmap
  /\ exc = "none"
  /\ InitConfig
  /\ InitRun

Next ==
  \/ \E pad \in PadValues : setPaddingTop(pad)
  \/ \E pad \in PadValues : setPaddingBottom(pad)
  \/ \E pad \in PadValues : setPaddingLeft(pad)
  \/ \E pad \in PadValues : setPaddingRight(pad)
  \/ setDataOrderRowMajor
  \/ setDataOrderColumnMajor
  \/ doHorizontalMirror
  \/ doVerticalMirror
  \/ GlyphProcessor_rotateCW
  \/ GlyphProcessor_rotateCCW
  \/ \E baseGlyph \in Bitmaps(GlyphSides) : getArrStructTypedef(baseGlyph)
  \/ glyphToCEntry

Spec == Init /\ [][Next]_vars

\* ------------------------------------------------------------------ claims

\* the value of a hex string
HexValue(digits) ==
  LET RECURSIVE val(_)
      val(n) == IF n = 0 THEN 0 ELSE 16 * val(n - 1) + digits[n]
  IN val(Len(digits))

\* 2^n
RECURSIVE Pow2(_)
Pow2(n) == IF n = 0 THEN 1 ELSE 2 * Pow2(n - 1)

\* the quarter-turns the calls made so far add up to, in 0..3
NetTurns == (((hist.cw - hist.ccw) % 4) + 4) % 4

\* the glyph padded by the last amounts set, then mirrored as asked for
PaddedByCalls == doPadding(glyph, hist.pad.Top, hist.pad.Bottom, hist.pad.Left, hist.pad.Right)

MirroredByCalls ==
  LET h == IF hist.horiz THEN flipHorizontal(PaddedByCalls) ELSE PaddedByCalls
  IN  IF hist.vert THEN flipVertical(h) ELSE h

TurnedByCalls ==
  LET m == MirroredByCalls
  IN  CASE NetTurns = 0 -> m
        [] NetTurns = 1 -> rotateCW(m)
        [] NetTurns = 2 -> rotateCW(rotateCW(m))
        [] NetTurns = 3 -> rotateCW(rotateCW(rotateCW(m)))

\* C1: whatever the order of the configuration calls, glyphToBitmap gives the
\* glyph padded by the last amount set for each edge, then mirrored
\* horizontally iff doHorizontalMirror was called, then vertically iff
\* doVerticalMirror was called, then turned clockwise (rotateCW calls minus
\* rotateCCW calls) mod 4 times; it raises exactly when that padding raises.
C1_FixedOrder ==
  /\ pc \in {"header", "entry"} => baseBmap = TurnedByCalls
  /\ exc = "IndexError in doPadding" <=>
       /\ pc = "raised"
       /\ doPaddingRaises(glyph, hist.pad.Top, hist.pad.Bottom, hist.pad.Left, hist.pad.Right)
  /\ exc = "IndexError in width" => baseBmap = TurnedByCalls

C1_Witness ==
  /\ pc = "header"
  /\ hist.cw = 1
  /\ hist.horiz
  /\ hist.pad.Top = -1
  /\ baseBmap # glyph
  /\ baseBmap # rotateCW(glyph)

\* the bitmap getCArr was called on
PackH == height(bindata)
PackW == width(bindata)
PackGroups == CeilDiv(PackH, 8)

\* bytes lists all the byte groups of column 1, then all of column 2, ...
ColumnByColumn(bytes, byteArr) ==
  \A c \in 1..PackW : \A k \in 1..PackGroups :
    bytes[(c - 1) * PackGroups + k] = byteArr[c][k]

\* bytes lists byte group 1 of every column, then byte group 2, ...
GroupByGroup(bytes, byteArr) ==
  \A c \in 1..PackW : \A k \in 1..PackGroups :
    bytes[(k - 1) * PackW + c] = byteArr[c][k]

\* one row of byte groups per column, ceil(h/8) groups in each
PackedShape(bytes, byteArr) ==
  /\ Len(byteArr) = PackW
  /\ \A c \in 1..PackW : Len(byteArr[c]) = PackGroups
  /\ Len(bytes) = PackW * PackGroups

\* C2 as claimed: with orderIsRowMajor = TRUE the byte groups come out
\* untransposed (column by column), with FALSE transposed (group by group),
\* for every bitmap that needs two byte groups or more per column.
C2_AsClaimed ==
  (carr.called /\ PackGroups >= 2) =>
    LET byteArr == byteArrOf(bindata)
    IN  /\ PackedShape(carr.bytes, byteArr)
        /\ carr.orderIsRowMajor => ColumnByColumn(carr.bytes, byteArr)
        /\ ~carr.orderIsRowMajor => GroupByGroup(carr.bytes, byteArr)

\* C2 amended: the array of byte groups has one row per column of the bitmap
\* and is transposed exactly when orderIsRowMajor is TRUE: byte group 1 of
\* every column, then byte group 2 of every column; with FALSE all byte
\* groups of column 1, then all of column 2.
C2_TransposedWhenRowMajor ==
  (carr.called /\ PackGroups >= 2) =>
    LET byteArr == byteArrOf(bindata)
    IN  /\ PackedShape(carr.bytes, byteArr)
        /\ carr.orderIsRowMajor => GroupByGroup(carr.bytes, byteArr)
        /\ ~carr.orderIsRowMajor => ColumnByColumn(carr.bytes, byteArr)

C2_Witness ==
  /\ carr.called
  /\ carr.orderIsRowMajor
  /\ PackGroups >= 2
  /\ PackW >= 2
  /\ GroupByGroup(carr.bytes, byteArrOf(bindata))
  /\ ~ColumnByColumn(carr.bytes, byteArrOf(bindata))

\* the element of the output that holds byte group k of column c
ElementOf(c, k) ==
  IF carr.orderIsRowMajor THEN carr.bytes[(k - 1) * PackW + c]
  ELSE carr.bytes[(c - 1) * PackGroups + k]

\* pixels 8(k-1) .. 8(k-1)+7 of column c, the topmost of them as bit 0
LittleEndianByte(c, k) ==
  LET RECURSIVE sum(_)
      sum(i) == IF i = 8 \/ 8 * (k - 1) + i >= PackH THEN 0
                ELSE bindata[8 * (k - 1) + i + 1][c] * Pow2(i) + sum(i + 1)
  IN sum(0)

\* C3: for every bitmap of width and height >= 1, getCArr gives ceil(h/8)
\* elements per column, the k-th (from 0) being the sum over i in 0..7 with
\* 8k+i < h of G[8k+i][c] * 2^i.
C3_LittleEndian ==
  carr.called =>
    /\ Len(carr.bytes) = PackW * PackGroups
    /\ \A c \in 1..PackW : \A k \in 1..PackGroups :
         HexValue(ElementOf(c, k)) = LittleEndianByte(c, k)

\* C4: every element getCArr returns is a string of exactly two hex digits.
C4_TwoHexDigits ==
  carr.called => \A i \in 1..Len(carr.bytes) : Len(carr.bytes[i]) = 2

\* C5: rotateCW applied four times to any bitmap, those of zero width and
\* non-zero height included, gives the bitmap back.
C5_RotationClosure == rotateCW(rotateCW(rotateCW(rotateCW(bindata)))) = bindata

Edges == {"Top", "Bottom", "Left", "Right"}

\* the doPadding arguments that adjust edge e alone by amount
OnEdge(e, amount) == [x \in Edges |-> IF x = e THEN amount ELSE 0]

doPaddingArgsRaises(b, a) == doPaddingRaises(b, a.Top, a.Bottom, a.Left, a.Right)

doPaddingArgs(b, a) == doPadding(b, a.Top, a.Bottom, a.Left, a.Right)

\* two doPadding calls in a row raise nothing
BothReturn(b, first, second) ==
  /\ ~doPaddingArgsRaises(b, first)
  /\ ~doPaddingArgsRaises(doPaddingArgs(b, first), second)

\* the size of bitmap b along the axis of edge e
SizeAlong(b, e) ==
  IF e \in {"Top", "Bottom"} THEN Len(b)
  ELSE IF b = <<>> THEN 0 ELSE Len(b[1])

\* the k outermost rows or columns of b at edge e hold no set pixel
OuterZero(b, e, k) ==
  CASE e = "Top" -> \A r \in 1..k : \A c \in 1..Len(b[r]) : b[r][c] = 0
    [] e = "Bottom" -> \A r \in (Len(b) - k + 1)..Len(b) : \A c \in 1..Len(b[r]) : b[r][c] = 0
    [] e = "Left" -> \A r \in 1..Len(b) : \A c \in 1..k : b[r][c] = 0
    [] e = "Right" -> \A r \in 1..Len(b) : \A c \in (Len(b[r]) - k + 1)..Len(b[r]) : b[r][c] = 0

TrimDepths == 1..2

\* C6: on every bitmap, for every edge and k > 0, doPadding(+k) then
\* doPadding(-k) on that edge gives the bitmap back, and doPadding(-k) then
\* doPadding(+k) restores the size along that edge with the k outermost rows
\* or columns all zero.
C6_PadTrim ==
  \A e \in Edges : \A k \in TrimDepths :
    /\ BothReturn(bindata, OnEdge(e, k), OnEdge(e, -k))
    /\ doPaddingArgs(doPaddingArgs(bindata, OnEdge(e, k)), OnEdge(e, -k)) = bindata
    /\ BothReturn(bindata, OnEdge(e, -k), OnEdge(e, k))
    /\ LET back == doPaddingArgs(doPaddingArgs(bindata, OnEdge(e, -k)), OnEdge(e, k))
       IN  /\ SizeAlong(back, e) = SizeAlong(bindata, e)
           /\ OuterZero(back, e, k)

\* the orders in which four edges can be adjusted
EdgeOrders == {o \in [1..4 -> Edges] : \A i, j \in 1..4 : o[i] = o[j] => i = j}

\* the adjustments args made one edge at a time in order o
InOrder(b, o, args) ==
  LET RECURSIVE upTo(_)
      upTo(n) == IF n = 0 THEN b ELSE doPaddingArgs(upTo(n - 1), OnEdge(o[n], args[o[n]]))
  IN upTo(4)

InOrderRaises(b, o, args) ==
  LET RECURSIVE upTo(_)
      upTo(n) == IF n = 0 THEN b ELSE doPaddingArgs(upTo(n - 1), OnEdge(o[n], args[o[n]]))
  IN \E n \in 1..4 : doPaddingArgsRaises(upTo(n - 1), OnEdge(o[n], args[o[n]]))

\* C7: for every bitmap and every four signed amounts, trims that reach or
\* exceed the bitmap's size included, the four edge adjustments made in any
\* order give what doPadding gives, and none of the orders raises.
C7_AnyEdgeOrder ==
  \A args \in [Edges -> PadAmounts] :
    /\ ~doPaddingArgsRaises(bindata, args)
    /\ \A o \in EdgeOrders :
         /\ ~InOrderRaises(bindata, o, args)
         /\ InOrder(bindata, o, args) = doPaddingArgs(bindata, args)

\* C8: no operation on a BitmapAdv made by fromParent(b) changes the rows of b.
C8_ParentUntouched == [][parentData' = parentData]_vars

\* C9: the entry glyphToCEntry writes has as many bytes as the GLYPH_SIZE =
\* width * ceil(height / 8) that getArrStructTypedef computed from the same
\* glyph's transformed bitmap, in row-major and in column-major order.
C9_EntrySize ==
  pc = "entry" =>
    /\ glyphSize = width(baseBmap) * CeilDiv(height(baseBmap), 8)
    /\ Len(entry) = glyphSize

C9_Witness ==
  /\ pc = "entry"
  /\ ~dataOrderIsRowMajor
  /\ width(baseBmap) = 2
  /\ height(baseBmap) = 10
  /\ Len(entry) = 4

\* C10: after one rotateCCW call and no rotateCW call the count is -1,
\* glyphToBitmap makes (-1 mod 4) = 3 clockwise turns, and on a padded and
\* mirrored bitmap of width and height >= 1 that is one BitmapAdv.rotateCCW;
\* rotateCW and rotateCCW undo each other there.
C10_OneCCW ==
  (hist.cw = 0 /\ hist.ccw = 1) =>
    /\ rotationCount = -1
    /\ rotationCount % 4 = 3
    /\ pc \in {"header", "entry"} =>
         LET m == MirroredByCalls
         IN  (height(m) >= 1 /\ width(m) >= 1) =>
               /\ baseBmap = rotateCCW(m)
               /\ rotateCW(rotateCCW(m)) = m
               /\ rotateCCW(rotateCW(m)) = m

C10_Witness ==
  /\ hist.cw = 0
  /\ hist.ccw = 1
  /\ pc = "header"
  /\ hist.horiz
  /\ height(glyph) = 1
  /\ width(glyph) = 2
  /\ baseBmap = <<<<1>>, <<0>>>>

====
